---------------------------- MODULE Spec2Model ----------------------------
(***************************************************************************)
(* Model of the inference-and-attribution serving core of                  *)
(* Feature-Driven_XIDS:                                                    *)
(*   backend/app/services/model_loader.py        (ModelLoader)             *)
(*   backend/app/services/prediction_service.py  (PredictionService)       *)
(*   backend/app/services/explanation_service.py (ExplanationService)      *)
(*   backend/app/main.py                         (health_check)            *)
(*                                                                         *)
(* Five specifications share the state:                                    *)
(*   Spec        every service call is one atomic action (the calls are    *)
(*               made one after the other, as the asyncio event loop of    *)
(*               the FastAPI application makes them);                      *)
(*   SpecThreads the same calls issued by several threads that interleave  *)
(*               between the statements that read or write a shared        *)
(*               attribute (the services take no lock);                    *)
(*   SpecAttribution  one explain_prediction call, from the output of the  *)
(*               explainer to the returned lists;                          *)
(*   SpecReconcile    one request record taken through validation,         *)
(*               prepare_features and predict;                             *)
(*   SpecPredict      the result of predict, get_prediction_details,       *)
(*               batch_predict and _get_threat_level from what the         *)
(*               classifier gives.                                         *)
(***************************************************************************)
EXTENDS Integers, Sequences, FiniteSets, TLC

(***************************************************************************)
(* Bounds                                                                  *)
(***************************************************************************)
\* reload() may be called this many times
MaxReloads == 1
\* number of caller threads of SpecThreads
NumThreads == 2
\* SpecThreads starts at most this many calls
MaxCalls == 3
\* a request record of SpecReconcile has at most this many keys
MaxKeys == 3
\* a batch of SpecPredict has at most this many records
MaxItems == 2

(***************************************************************************)
(* Values                                                                  *)
(***************************************************************************)
\* Python's None
None == [none |-> TRUE]

\* initialize() without arguments reads the built-in paths; a caller may
\* pass another path
DefaultPath == "default"
OtherPath == "other"
Paths == {DefaultPath, OtherPath}

\* ordered feature-name lists a bundle may carry
ColsA == <<"f1", "f2">>
ColsB == <<"f3", "f1", "f2">>
\* model_package.get('feature_columns', []): an absent key reads as []
ModelCols == {<< >>, ColsA, ColsB}
PrepCols == {ColsA, ColsB}

\* a Python list held in an attribute
PyList(names) == [list |-> names]

\* the keys a preprocessor bundle may hold
AllKeys == {"label_encoder", "scaler", "feature_columns"}
KeySets == {AllKeys} \cup {AllKeys \ {k} : k \in AllKeys}

\* What joblib.load(path) can give for the model bundle while g reloads
\* have started.  Every read builds new objects: gen tells the objects of
\* different reloads apart, src is the path read, tree tells whether
\* shap.TreeExplainer supports the classifier.
ModelFiles(path, g) ==
    {[kind |-> "missing"], [kind |-> "nomodel"]} \cup
    {[kind |-> "ok",
      model |-> [obj |-> "model", gen |-> g, src |-> path, tree |-> t],
      feature_columns |-> c] : t \in BOOLEAN, c \in ModelCols}

\* What joblib.load(path) can give for the preprocessor bundle: no file, or
\* a dict holding some of the keys.
PrepFiles(path, g) ==
    {[kind |-> "missing"]} \cup
    {[kind |-> "ok",
      dict |-> [obj |-> "preprocessor", gen |-> g, src |-> path,
                keys |-> ks, feature_columns |-> c]] :
        ks \in KeySets, c \in PrepCols}

\* self._preprocessor['label_encoder'] and self._preprocessor['scaler']
LabelEncoderOf(d) == [obj |-> "label_encoder", gen |-> d.gen, src |-> d.src]
ScalerOf(d) ==
    [obj |-> "scaler", gen |-> d.gen, src |-> d.src,
     names |-> d.feature_columns]

\* label_encoder.classes_
Classes == <<"BENIGN", "DoS", "PortScan">>

\* exceptions
NoError == [type |-> "none", why |-> "none"]
Err(t, w) == [type |-> t, why |-> w]
ModelNotLoaded == Err("ValueError", "Model not loaded")
PreprocessorNotLoaded == Err("ValueError", "Preprocessor not loaded")
ColumnsNotAvailable == Err("ValueError", "Feature columns not available")
NotLoadedErrors ==
    {ModelNotLoaded, PreprocessorNotLoaded, ColumnsNotAvailable}

\* request records: feature name -> value
Records == {[f1 |-> 1, f2 |-> 1], [f2 |-> 2, zz |-> 2]}

(***************************************************************************)
(* State                                                                   *)
(***************************************************************************)
VARIABLES
    \* ModelLoader's cached attributes (model_loader.py:22-26)
    _model, _preprocessor, _feature_columns, _label_encoder, _scaler,
    \* ExplanationService.explainer (explanation_service.py:26)
    explainer,
    \* number of reload() calls started so far
    epoch,
    \* Spec: the outcome of the last call, and the bundles whose load call
    \* has returned without an exception since the attributes were last
    \* cleared
    last, loads_ok,
    \* Spec: an explain call has reported that no explainer could be built
    build_failed,
    \* SpecThreads: each thread's position and local variables, the number
    \* of calls started, and the number of times a model bundle, a
    \* preprocessor bundle were read and an explainer was constructed
    pc, loc, calls, modelLoads, prepLoads, explainerBuilds,
    \* SpecAttribution, SpecReconcile: the values one call works on and what
    \* it gave
    inp, outp

storeVars ==
    <<_model, _preprocessor, _feature_columns, _label_encoder, _scaler>>
counters == <<modelLoads, prepLoads, explainerBuilds>>
threadVars == <<pc, loc, calls, counters>>
histVars == <<last, loads_ok, build_failed>>
callVars == <<inp, outp>>
serviceVars == <<storeVars, explainer, epoch, histVars, threadVars>>
vars == <<serviceVars, callVars>>

\* the loader's attributes as one value
Store ==
    [model |-> _model, preprocessor |-> _preprocessor,
     feature_columns |-> _feature_columns,
     label_encoder |-> _label_encoder, scaler |-> _scaler]

EmptyStore ==
    [model |-> None, preprocessor |-> None, feature_columns |-> None,
     label_encoder |-> None, scaler |-> None]

SetStore(S) ==
    /\ _model' = S.model
    /\ _preprocessor' = S.preprocessor
    /\ _feature_columns' = S.feature_columns
    /\ _label_encoder' = S.label_encoder
    /\ _scaler' = S.scaler

\* the outcome of a call: the store it leaves, the exception it raises, the
\* value it returns, and the bundles it read from storage
Out(S, e, r, rd) == [S |-> S, err |-> e, ret |-> r, reads |-> rd]

(***************************************************************************)
(* ModelLoader                                                             *)
(***************************************************************************)
\* joblib.load is called only where the code reaches it, and the content
\* of a file is drawn when it is read: Unread stands for no read
Unread == [kind |-> "unread"]

\* a load_model that reads the file whether or not a model is cached
ModelReadAlways(S, path, g) == ModelFiles(path, g)

\* "if self._model is None": what load_model(path) reads
ModelReadBy(S, path, g) ==
    IF S.model = None THEN ModelFiles(path, g) ELSE {Unread}

\* "if self._preprocessor is None": what load_preprocessor(path) reads
PrepReadBy(S, path, g) ==
    IF S.preprocessor = None THEN PrepFiles(path, g) ELSE {Unread}

\* load_model(model_path), f being what joblib.load gave
load_model(S, f) ==
    IF f = Unread THEN Out(S, NoError, S.model, {})
    ELSE IF f.kind = "missing"
         THEN Out(S, Err("FileNotFoundError", "model"), None, {"model"})
    ELSE IF f.kind = "nomodel"
         THEN Out(S, Err("KeyError", "model"), None, {"model"})
    ELSE Out([S EXCEPT !.model = f.model,
                       !.feature_columns = PyList(f.feature_columns)],
             NoError, f.model, {"model"})

\* not self._feature_columns
NoColumns(S) == S.feature_columns = None \/ S.feature_columns = PyList(<< >>)

\* load_preprocessor(preprocessor_path), f being what joblib.load gave
load_preprocessor(S, f) ==
    IF f = Unread THEN Out(S, NoError, S.preprocessor, {})
    ELSE IF f.kind = "missing"
         THEN Out(S, Err("FileNotFoundError", "preprocessor"), None,
                  {"preprocessor"})
    ELSE
    LET d == f.dict
        S1 == [S EXCEPT !.preprocessor = d]
        S2 == [S1 EXCEPT !.label_encoder = LabelEncoderOf(d)]
        S3 == [S2 EXCEPT !.scaler = ScalerOf(d)]
        S4 == [S3 EXCEPT !.feature_columns = PyList(d.feature_columns)]
    IN  IF "label_encoder" \notin d.keys
        THEN Out(S1, Err("KeyError", "label_encoder"), None,
                 {"preprocessor"})
        ELSE IF "scaler" \notin d.keys
        THEN Out(S2, Err("KeyError", "scaler"), None, {"preprocessor"})
        ELSE IF ~NoColumns(S3)
        THEN Out(S3, NoError, d, {"preprocessor"})
        ELSE IF "feature_columns" \notin d.keys
        THEN Out(S3, Err("KeyError", "feature_columns"), None,
                 {"preprocessor"})
        ELSE Out(S4, NoError, d, {"preprocessor"})

\* get_model()
get_model(S) ==
    IF S.model = None THEN Out(S, ModelNotLoaded, None, {})
    ELSE Out(S, NoError, S.model, {})

\* get_label_encoder()
get_label_encoder(S) ==
    IF S.label_encoder = None THEN Out(S, PreprocessorNotLoaded, None, {})
    ELSE Out(S, NoError, S.label_encoder, {})

\* get_scaler()
get_scaler(S) ==
    IF S.scaler = None THEN Out(S, PreprocessorNotLoaded, None, {})
    ELSE Out(S, NoError, S.scaler, {})

\* get_feature_columns()
get_feature_columns(S) ==
    IF S.feature_columns = None THEN Out(S, ColumnsNotAvailable, None, {})
    ELSE Out(S, NoError, S.feature_columns, {})

\* is_loaded()
is_loaded(S) == S.model # None /\ S.preprocessor # None

\* get_model_info(): the "loaded" entry of the dict it returns;
\* self._label_encoder.classes_ raises when the codec is absent
get_model_info(S) ==
    IF ~is_loaded(S) THEN Out(S, NoError, [loaded |-> FALSE], {})
    ELSE IF S.label_encoder = None
    THEN Out(S, Err("AttributeError", "classes_"), None, {})
    ELSE Out(S, NoError, [loaded |-> TRUE], {})

\* initialize(model_path, preprocessor_path)
initialize(S, fm, fp) ==
    LET m == load_model(S, fm)
        p == load_preprocessor(m.S, fp)
    IN  IF m.err # NoError THEN m
        ELSE Out(p.S, p.err, None, m.reads \cup p.reads)

\* reload(): the five attributes are cleared, then initialize() reads the
\* built-in paths
reload(S, fm, fp) == initialize(EmptyStore, fm, fp)

(***************************************************************************)
(* PredictionService                                                       *)
(***************************************************************************)
\* feature_df[expected_features] after the missing columns were filled with
\* 0: one slot per expected name, in that order
Reconcile(cols, rec) ==
    [i \in 1..Len(cols) |->
        IF cols[i] \in DOMAIN rec THEN rec[cols[i]] ELSE 0]

\* scaler.transform(feature_df): the scaler was fitted on the columns of its
\* own bundle and refuses a frame with other columns
scaler_transform(sc, cols, v) ==
    IF cols # sc.names THEN Out(None, Err("ValueError", "sklearn"), None, {})
    ELSE Out(None, NoError, [by |-> sc, of |-> v], {})

\* prepare_features(features)
\* a prepare_features that appends a name to the loader's own column list
prepare_features_appending(S, rec) ==
    LET c == get_feature_columns(S)
        sc == get_scaler(S)
        t == scaler_transform(sc.ret, c.ret.list, Reconcile(c.ret.list, rec))
    IN  IF c.err # NoError THEN Out(S, c.err, None, {})
        ELSE IF sc.err # NoError THEN Out(S, sc.err, None, {})
        ELSE Out([S EXCEPT
                    !.feature_columns = PyList(Append(c.ret.list, "extra"))],
                 t.err, t.ret, {})

prepare_features(S, rec) ==
    LET c == get_feature_columns(S)
        sc == get_scaler(S)
        t == scaler_transform(sc.ret, c.ret.list, Reconcile(c.ret.list, rec))
    IN  IF c.err # NoError THEN Out(S, c.err, None, {})
        ELSE IF sc.err # NoError THEN Out(S, sc.err, None, {})
        ELSE Out(S, t.err, t.ret, {})

\* model.predict(X)[0]: the class index the classifier gives
RECURSIVE SumSeq(_)
SumSeq(v) == IF v = << >> THEN 0 ELSE Head(v) + SumSeq(Tail(v))
model_predict(m, X) == (SumSeq(X.of) + m.gen + X.by.gen) % Len(Classes)

\* predict(features): the label, with the vector and the objects it was
\* computed from
predict(S, rec) ==
    LET X == prepare_features(S, rec)
        m == get_model(X.S)
        le == get_label_encoder(X.S)
    IN  IF X.err # NoError THEN X
        ELSE IF m.err # NoError THEN Out(X.S, m.err, None, {})
        ELSE IF le.err # NoError THEN Out(X.S, le.err, None, {})
        ELSE Out(X.S, NoError,
                 [prediction |-> Classes[model_predict(m.ret, X.ret) + 1],
                  X |-> X.ret, model |-> m.ret, label_encoder |-> le.ret],
                 {})

\* get_prediction_details(features)
get_prediction_details(S, rec) ==
    LET p == predict(S, rec)
    IN  IF p.err # NoError THEN p
        ELSE Out(p.S, NoError,
                 [prediction |-> p.ret.prediction,
                  is_attack |-> p.ret.prediction # "BENIGN",
                  X |-> p.ret.X, model |-> p.ret.model,
                  label_encoder |-> p.ret.label_encoder], {})

\* batch_predict(features_list), the items one after the other: a failing
\* item gives "ERROR"
RECURSIVE batch_predict(_, _)
batch_predict(S, recs) ==
    IF recs = << >> THEN Out(S, NoError, [results |-> << >>], {})
    ELSE LET p == predict(S, Head(recs))
             rest == batch_predict(p.S, Tail(recs))
             item == IF p.err # NoError THEN "ERROR" ELSE p.ret.prediction
         IN  Out(rest.S, NoError,
                 [results |-> <<item>> \o rest.ret.results], {})

(***************************************************************************)
(* ExplanationService                                                      *)
(***************************************************************************)
\* _initialize_explainer(): the explainer it leaves in self.explainer
\* an _initialize_explainer that keeps a marker of a failed construction
InitializeExplainerKeepingFailure(S) ==
    IF ~is_loaded(S) THEN None
    ELSE IF get_model(S).ret.tree
    THEN [obj |-> "explainer", model |-> get_model(S).ret]
    ELSE [obj |-> "failed", model |-> get_model(S).ret]

InitializeExplainer(S) ==
    IF is_loaded(S) /\ get_model(S).ret.tree
    THEN [obj |-> "explainer", model |-> get_model(S).ret]
    ELSE None

\* ensure_explainer_loaded(): the explainer it leaves
EnsureExplainer(S, ex) == IF ex = None THEN InitializeExplainer(S) ELSE ex

ExplainerError == Err("ValueError", "SHAP explainer could not be initialized")

\* explain_prediction(features, top_n), ex being self.explainer after
\* ensure_explainer_loaded()
explain_prediction(S, ex, rec) ==
    LET X == prepare_features(S, rec)
        p == predict(X.S, rec)
    IN  IF ex = None THEN Out(S, ExplainerError, None, {})
        ELSE IF X.err # NoError THEN X
        ELSE IF p.err # NoError THEN p
        ELSE Out(p.S, NoError,
                 [prediction |-> p.ret.prediction, X |-> X.ret,
                  model |-> p.ret.model, explained_with |-> ex.model], {})

\* explain_with_visualization_data(features, top_n): a projection of the
\* explanation
explain_with_visualization_data(S, ex, rec) ==
    LET e == explain_prediction(S, ex, rec)
    IN  IF e.err # NoError THEN e
        ELSE Out(e.S, NoError,
                 [prediction |-> e.ret.prediction,
                  explained_with |-> e.ret.explained_with], {})

\* get_feature_contribution_summary(features): the text of the explanation
get_feature_contribution_summary(S, ex, rec) ==
    LET e == explain_prediction(S, ex, rec)
    IN  IF e.err # NoError THEN e
        ELSE Out(e.S, NoError, [summary |-> e.ret.prediction], {})

\* health_check() of main.py: the status it answers
health_check(S) ==
    LET i == get_model_info(S)
    IN  IF i.err # NoError
        THEN Out(S, NoError, [status |-> "unhealthy", model_loaded |-> FALSE],
                 {})
        ELSE Out(S, NoError,
                 [status |-> IF i.ret.loaded THEN "healthy" ELSE "degraded",
                  model_loaded |-> i.ret.loaded], {})

(***************************************************************************)
(* Spec: the calls, one at a time                                          *)
(***************************************************************************)
\* the model, the feature-name list, the label codec and the scaler
AllPresent(S) ==
    /\ S.model # None
    /\ S.feature_columns # None
    /\ S.label_encoder # None
    /\ S.scaler # None

Threads == 1..NumThreads

\* a thread's local variables: the call it runs, whether it has decided to
\* read a bundle, whether the store was complete when the call started, the
\* pass of prepare_features, the objects it got from the loader, their
\* generations, whether it got one of them while a load was running, and
\* the exception it raised
NoLocals ==
    [op |-> "none", loading |-> FALSE, ready |-> FALSE, pass |-> 1,
     pkg |-> None, cols |-> None, model |-> None, gens |-> {},
     early |-> FALSE, built |-> FALSE, err |-> NoError]

\* the arguments of a call
NoArg == None
PathArg(p) == [path |-> p]
PathsArg(mp, pp) == [model_path |-> mp, preprocessor_path |-> pp]
RecArg(r) == [features |-> r]

InitServices ==
    /\ _model = None
    /\ _preprocessor = None
    /\ _feature_columns = None
    /\ _label_encoder = None
    /\ _scaler = None
    /\ explainer = None
    /\ epoch = 0
    /\ last = [op |-> "none", arg |-> NoArg, err |-> NoError, ret |-> None,
               reads |-> {}]
    /\ loads_ok = {}
    /\ build_failed = FALSE
    /\ pc = [t \in Threads |-> "idle"]
    /\ loc = [t \in Threads |-> NoLocals]
    /\ calls = 0
    /\ modelLoads = 0
    /\ prepLoads = 0
    /\ explainerBuilds = 0

Init ==
    /\ InitServices
    /\ inp = None
    /\ outp = None

\* a call returns: its outcome is recorded and the store is what it left
Return(op, arg, o) ==
    /\ last' = [op |-> op, arg |-> arg, err |-> o.err, ret |-> o.ret,
                reads |-> o.reads]
    /\ SetStore(o.S)
    /\ UNCHANGED callVars

\* a request-path or status call: it returns and touches nothing else
Call(op, arg, o) ==
    /\ Return(op, arg, o)
    /\ UNCHANGED <<explainer, epoch, loads_ok, build_failed, threadVars>>

\* initialize() reaches load_preprocessor only when load_model returned
PrepReadAfter(S, fm, path, g) ==
    IF load_model(S, fm).err # NoError THEN {Unread}
    ELSE PrepReadBy(S, path, g)

LoadModel(path) ==
    \E f \in ModelReadBy(Store, path, epoch) :
        LET o == load_model(Store, f)
        IN  /\ Return("load_model", PathArg(path), o)
            /\ loads_ok' = IF o.err = NoError THEN loads_ok \cup {"model"}
                           ELSE loads_ok
            /\ UNCHANGED <<explainer, epoch, build_failed, threadVars>>

LoadPreprocessor(path) ==
    \E f \in PrepReadBy(Store, path, epoch) :
        LET o == load_preprocessor(Store, f)
        IN  /\ Return("load_preprocessor", PathArg(path), o)
            /\ loads_ok' = IF o.err = NoError
                           THEN loads_ok \cup {"preprocessor"}
                           ELSE loads_ok
            /\ UNCHANGED <<explainer, epoch, build_failed, threadVars>>

\* the bundles whose load call returned inside initialize()
LoadsOkAfter(ok, o) ==
    IF o.err = NoError THEN {"model", "preprocessor"}
    ELSE IF o.S.model # None THEN ok \cup {"model"}
    ELSE ok

Initialize(mp, pp) ==
    \E fm \in ModelReadBy(Store, mp, epoch) :
    \E fp \in PrepReadAfter(Store, fm, pp, epoch) :
        LET o == initialize(Store, fm, fp)
        IN  /\ Return("initialize", PathsArg(mp, pp), o)
            /\ loads_ok' = LoadsOkAfter(loads_ok, o)
            /\ UNCHANGED <<explainer, epoch, build_failed, threadVars>>

\* lifespan() of main.py, run once before any request: initialize() on the
\* built-in paths unless the model file does not exist; an exception is
\* logged and the application starts
Lifespan ==
    /\ last.op = "none"
    /\ \E fm \in ModelReadBy(Store, DefaultPath, epoch) :
       \E fp \in PrepReadAfter(Store, fm, DefaultPath, epoch) :
        LET o == initialize(Store, fm, fp)
        IN  /\ Return("lifespan", NoArg,
                      Out(o.S, NoError, [failed |-> o.err # NoError],
                          o.reads))
            /\ loads_ok' = LoadsOkAfter(loads_ok, o)
            /\ UNCHANGED <<explainer, epoch, build_failed, threadVars>>

\* a reload() that reads the bundles from paths other than the built-in ones
ReloadFromOtherPath ==
    /\ epoch < MaxReloads
    /\ epoch' = epoch + 1
    /\ \E fm \in ModelReadBy(EmptyStore, OtherPath, epoch + 1) :
       \E fp \in PrepReadAfter(EmptyStore, fm, OtherPath, epoch + 1) :
        LET o == reload(Store, fm, fp)
        IN  /\ Return("reload", NoArg, o)
            /\ loads_ok' = LoadsOkAfter({}, o)
            /\ UNCHANGED <<explainer, build_failed, threadVars>>

Reload ==
    /\ epoch < MaxReloads
    /\ epoch' = epoch + 1
    /\ \E fm \in ModelReadBy(EmptyStore, DefaultPath, epoch + 1) :
       \E fp \in PrepReadAfter(EmptyStore, fm, DefaultPath, epoch + 1) :
        LET o == reload(Store, fm, fp)
        IN  /\ Return("reload", NoArg, o)
            /\ loads_ok' = LoadsOkAfter({}, o)
            /\ UNCHANGED <<explainer, build_failed, threadVars>>

GetModel == Call("get_model", NoArg, get_model(Store))
GetLabelEncoder == Call("get_label_encoder", NoArg, get_label_encoder(Store))
GetScaler == Call("get_scaler", NoArg, get_scaler(Store))
GetFeatureColumns ==
    Call("get_feature_columns", NoArg, get_feature_columns(Store))
IsLoaded ==
    Call("is_loaded", NoArg,
         Out(Store, NoError, [value |-> is_loaded(Store)], {}))
GetModelInfo == Call("get_model_info", NoArg, get_model_info(Store))
HealthCheck == Call("health_check", NoArg, health_check(Store))

PrepareFeatures(rec) ==
    Call("prepare_features", RecArg(rec), prepare_features(Store, rec))
Predict(rec) == Call("predict", RecArg(rec), predict(Store, rec))
GetPredictionDetails(rec) ==
    Call("get_prediction_details", RecArg(rec),
         get_prediction_details(Store, rec))
BatchPredict(recs) ==
    Call("batch_predict", RecArg(recs), batch_predict(Store, recs))

ExplainPrediction(rec) ==
    /\ explainer' = EnsureExplainer(Store, explainer)
    /\ Return("explain_prediction", RecArg(rec),
              explain_prediction(Store, explainer', rec))
    /\ build_failed' = (build_failed \/ last'.err = ExplainerError)
    /\ UNCHANGED <<epoch, loads_ok, threadVars>>

ExplainWithVisualizationData(rec) ==
    /\ explainer' = EnsureExplainer(Store, explainer)
    /\ Return("explain_with_visualization_data", RecArg(rec),
              explain_with_visualization_data(Store, explainer', rec))
    /\ build_failed' = (build_failed \/ last'.err = ExplainerError)
    /\ UNCHANGED <<epoch, loads_ok, threadVars>>

GetFeatureContributionSummary(rec) ==
    /\ explainer' = EnsureExplainer(Store, explainer)
    /\ Return("get_feature_contribution_summary", RecArg(rec),
              get_feature_contribution_summary(Store, explainer', rec))
    /\ build_failed' = (build_failed \/ last'.err = ExplainerError)
    /\ UNCHANGED <<epoch, loads_ok, threadVars>>

\* the batches tried
Batches == {<<r1, r2>> : r1 \in Records, r2 \in Records}

Next ==
    \/ \E p \in Paths : LoadModel(p)
    \/ \E p \in Paths : LoadPreprocessor(p)
    \/ \E mp \in Paths, pp \in Paths : Initialize(mp, pp)
    \/ Lifespan
    \/ Reload
    \/ GetModel
    \/ GetLabelEncoder
    \/ GetScaler
    \/ GetFeatureColumns
    \/ IsLoaded
    \/ GetModelInfo
    \/ HealthCheck
    \/ \E r \in Records : PrepareFeatures(r)
    \/ \E r \in Records : Predict(r)
    \/ \E r \in Records : GetPredictionDetails(r)
    \/ \E b \in Batches : BatchPredict(b)
    \/ \E r \in Records : ExplainPrediction(r)
    \/ \E r \in Records : ExplainWithVisualizationData(r)
    \/ \E r \in Records : GetFeatureContributionSummary(r)

Spec == Init /\ [][Next]_vars

(***************************************************************************)
(* SpecThreads: the calls issued by several threads.  A thread runs one    *)
(* call at a time and may be pre-empted between two statements that read   *)
(* or write an attribute of the loader or of the explanation service.      *)
(***************************************************************************)
\* the bundles found at the built-in paths: a classifier bundle that names
\* the preprocessor's feature list, a complete preprocessor bundle, or no
\* file
ThreadModelFiles(g) ==
    {f \in ModelFiles(DefaultPath, g) :
        f.kind = "missing" \/ (f.kind = "ok" /\ f.feature_columns = ColsA)}
ThreadPrepFiles(g) ==
    {f \in PrepFiles(DefaultPath, g) :
        f.kind = "missing"
          \/ (f.kind = "ok" /\ f.dict.keys = AllKeys
                /\ f.dict.feature_columns = ColsA)}

\* the record every request of SpecThreads sends
ThreadRecord == [f1 |-> 1, f2 |-> 1]

\* the store holds a complete artifact set read in one generation (all of
\* it before any reload started, or all of it after the same reload started)
OneGeneration(S) ==
    /\ AllPresent(S)
    /\ S.scaler.gen = S.model.gen
    /\ S.label_encoder.gen = S.model.gen

\* the locals of a call that starts now
Locals(op) == [NoLocals EXCEPT !.op = op, !.ready = OneGeneration(Store)]

\* a load that will read, or has read, a bundle is running in another thread
LoadInFlight(t) ==
    \E u \in Threads \ {t} : pc[u] # "idle" /\ loc[u].loading

\* thread t moves to label l with locals v, leaving the store as S and the
\* explainer as ex
Step(t, l, v, S, ex) ==
    /\ pc' = [pc EXCEPT ![t] = l]
    /\ loc' = [loc EXCEPT ![t] = v]
    /\ SetStore(S)
    /\ explainer' = ex
    /\ UNCHANGED <<histVars, callVars>>

\* thread t moves to label l, changing only its locals
Local(t, l, v) == Step(t, l, v, Store, explainer)

\* the call of thread t ends with exception e
Raise(t, e) == Local(t, "idle", [loc[t] EXCEPT !.err = e])

\* the call of thread t returns
Done(t) == Local(t, "idle", loc[t])

\* thread t starts call op at label l
Start(t, op, l) ==
    /\ pc[t] = "idle"
    /\ calls < MaxCalls
    /\ calls' = calls + 1
    /\ Local(t, l, Locals(op))

StartInitialize(t) ==
    /\ Start(t, "initialize", "load_model")
    /\ UNCHANGED <<epoch, counters>>

\* model_loader.py:46  if self._model is None
LoadModelCheck(t) ==
    /\ pc[t] = "load_model"
    /\ IF _model = None
       THEN Local(t, "read_model", [loc[t] EXCEPT !.loading = TRUE])
       ELSE Local(t, "load_preprocessor", loc[t])
    /\ UNCHANGED <<epoch, calls, counters>>

\* model_loader.py:49  model_package = joblib.load(model_path)
LoadModelRead(t) ==
    /\ pc[t] = "read_model"
    /\ \E f \in ThreadModelFiles(epoch) :
          IF f.kind = "missing"
          THEN /\ Raise(t, Err("FileNotFoundError", "model"))
               /\ UNCHANGED modelLoads
          ELSE /\ Local(t, "set_model", [loc[t] EXCEPT !.pkg = f])
               /\ modelLoads' = modelLoads + 1
    /\ UNCHANGED <<epoch, calls, prepLoads, explainerBuilds>>

\* model_loader.py:52  self._model = model_package['model']
LoadModelSetModel(t) ==
    /\ pc[t] = "set_model"
    /\ Step(t, "set_columns", loc[t],
            [Store EXCEPT !.model = loc[t].pkg.model], explainer)
    /\ UNCHANGED <<epoch, calls, counters>>

\* model_loader.py:53  self._feature_columns = model_package.get(...)
LoadModelSetColumns(t) ==
    /\ pc[t] = "set_columns"
    /\ Step(t, "load_preprocessor", [loc[t] EXCEPT !.pkg = None],
            [Store EXCEPT
               !.feature_columns = PyList(loc[t].pkg.feature_columns)],
            explainer)
    /\ UNCHANGED <<epoch, calls, counters>>

\* model_loader.py:77  if self._preprocessor is None
LoadPreprocessorCheck(t) ==
    /\ pc[t] = "load_preprocessor"
    /\ IF _preprocessor = None
       THEN Local(t, "read_preprocessor", [loc[t] EXCEPT !.loading = TRUE])
       ELSE Done(t)
    /\ UNCHANGED <<epoch, calls, counters>>

\* model_loader.py:80  self._preprocessor = joblib.load(preprocessor_path)
LoadPreprocessorRead(t) ==
    /\ pc[t] = "read_preprocessor"
    /\ \E f \in ThreadPrepFiles(epoch) :
          IF f.kind = "missing"
          THEN /\ Raise(t, Err("FileNotFoundError", "preprocessor"))
               /\ UNCHANGED prepLoads
          ELSE /\ Step(t, "set_label_encoder", loc[t],
                       [Store EXCEPT !.preprocessor = f.dict], explainer)
               /\ prepLoads' = prepLoads + 1
    /\ UNCHANGED <<epoch, calls, modelLoads, explainerBuilds>>

\* model_loader.py:83  self._label_encoder = self._preprocessor[...]
SetLabelEncoder(t) ==
    /\ pc[t] = "set_label_encoder"
    /\ IF _preprocessor = None
       THEN Raise(t, Err("TypeError", "preprocessor"))
       ELSE IF "label_encoder" \notin _preprocessor.keys
       THEN Raise(t, Err("KeyError", "label_encoder"))
       ELSE Step(t, "set_scaler", loc[t],
                 [Store EXCEPT !.label_encoder = LabelEncoderOf(_preprocessor)],
                 explainer)
    /\ UNCHANGED <<epoch, calls, counters>>

\* model_loader.py:84  self._scaler = self._preprocessor['scaler']
SetScaler(t) ==
    /\ pc[t] = "set_scaler"
    /\ IF _preprocessor = None
       THEN Raise(t, Err("TypeError", "preprocessor"))
       ELSE IF "scaler" \notin _preprocessor.keys
       THEN Raise(t, Err("KeyError", "scaler"))
       ELSE Step(t, "set_feature_columns", loc[t],
                 [Store EXCEPT !.scaler = ScalerOf(_preprocessor)], explainer)
    /\ UNCHANGED <<epoch, calls, counters>>

\* model_loader.py:87-88  if not self._feature_columns: ... = [...]
SetFeatureColumns(t) ==
    /\ pc[t] = "set_feature_columns"
    /\ IF ~NoColumns(Store)
       THEN Done(t)
       ELSE IF _preprocessor = None
       THEN Raise(t, Err("TypeError", "preprocessor"))
       ELSE IF "feature_columns" \notin _preprocessor.keys
       THEN Raise(t, Err("KeyError", "feature_columns"))
       ELSE Step(t, "idle", loc[t],
                 [Store EXCEPT
                    !.feature_columns =
                        PyList(_preprocessor.feature_columns)],
                 explainer)
    /\ UNCHANGED <<epoch, calls, counters>>

\* model_loader.py:206  reload()
StartReload(t) ==
    /\ epoch < MaxReloads
    /\ epoch' = epoch + 1
    /\ Start(t, "reload", "clear_model")
    /\ UNCHANGED counters

\* model_loader.py:211  self._model = None
ClearModel(t) ==
    /\ pc[t] = "clear_model"
    /\ Step(t, "clear_preprocessor", loc[t],
            [Store EXCEPT !.model = None], explainer)
    /\ UNCHANGED <<epoch, calls, counters>>

\* model_loader.py:212  self._preprocessor = None
ClearPreprocessor(t) ==
    /\ pc[t] = "clear_preprocessor"
    /\ Step(t, "clear_feature_columns", loc[t],
            [Store EXCEPT !.preprocessor = None], explainer)
    /\ UNCHANGED <<epoch, calls, counters>>

\* model_loader.py:213  self._feature_columns = None
ClearFeatureColumns(t) ==
    /\ pc[t] = "clear_feature_columns"
    /\ Step(t, "clear_label_encoder", loc[t],
            [Store EXCEPT !.feature_columns = None], explainer)
    /\ UNCHANGED <<epoch, calls, counters>>

\* model_loader.py:214  self._label_encoder = None
ClearLabelEncoder(t) ==
    /\ pc[t] = "clear_label_encoder"
    /\ Step(t, "clear_scaler", loc[t],
            [Store EXCEPT !.label_encoder = None], explainer)
    /\ UNCHANGED <<epoch, calls, counters>>

\* model_loader.py:215-216  self._scaler = None; self.initialize()
ClearScaler(t) ==
    /\ pc[t] = "clear_scaler"
    /\ Step(t, "load_model", loc[t], [Store EXCEPT !.scaler = None],
            explainer)
    /\ UNCHANGED <<epoch, calls, counters>>

\* prediction_service.py:63  predict(features)
StartPredict(t) ==
    /\ Start(t, "predict", "get_feature_columns")
    /\ UNCHANGED <<epoch, counters>>

\* what a thread notes when the loader hands it object x
Got(t, x) ==
    [loc[t] EXCEPT !.gens = @ \cup {x.gen},
                   !.early = @ \/ LoadInFlight(t)]

\* prediction_service.py:37  expected_features = get_feature_columns()
ReadFeatureColumns(t) ==
    /\ pc[t] = "get_feature_columns"
    /\ LET c == get_feature_columns(Store)
       IN  IF c.err # NoError THEN Raise(t, c.err)
           ELSE Local(t, "get_scaler",
                      [loc[t] EXCEPT !.cols = c.ret,
                                     !.early = @ \/ LoadInFlight(t)])
    /\ UNCHANGED <<epoch, calls, counters>>

\* prediction_service.py:54-55  scaler = get_scaler(); scaler.transform(..)
\* explain_prediction prepares the features (explanation_service.py:77) and
\* then has predict() prepare them again (explanation_service.py:80)
ReadScaler(t) ==
    /\ pc[t] = "get_scaler"
    /\ LET sc == get_scaler(Store)
           X == scaler_transform(sc.ret, loc[t].cols.list,
                                 Reconcile(loc[t].cols.list, ThreadRecord))
       IN  IF sc.err # NoError THEN Raise(t, sc.err)
           ELSE IF X.err # NoError THEN Raise(t, X.err)
           ELSE IF loc[t].op = "explain_prediction" /\ loc[t].pass = 1
           THEN Local(t, "get_feature_columns",
                      [Got(t, sc.ret) EXCEPT !.pass = 2])
           ELSE Local(t, "get_model", Got(t, sc.ret))
    /\ UNCHANGED <<epoch, calls, counters>>

\* prediction_service.py:78-81  model = get_model(); model.predict(X)
ReadModel(t) ==
    /\ pc[t] = "get_model"
    /\ LET m == get_model(Store)
       IN  IF m.err # NoError THEN Raise(t, m.err)
           ELSE Local(t, "get_label_encoder", Got(t, m.ret))
    /\ UNCHANGED <<epoch, calls, counters>>

\* prediction_service.py:100-101  get_label_encoder().inverse_transform
ReadLabelEncoder(t) ==
    /\ pc[t] = "get_label_encoder"
    /\ LET le == get_label_encoder(Store)
       IN  IF le.err # NoError THEN Raise(t, le.err)
           ELSE IF loc[t].op = "explain_prediction"
           THEN Local(t, "shap_values", Got(t, le.ret))
           ELSE Local(t, "idle", Got(t, le.ret))
    /\ UNCHANGED <<epoch, calls, counters>>

\* explanation_service.py:58  explain_prediction(features)
StartExplain(t) ==
    /\ Start(t, "explain_prediction", "ensure_explainer_loaded")
    /\ UNCHANGED <<epoch, counters>>

\* explanation_service.py:52  if self.explainer is None
ExplainerCheck(t) ==
    /\ pc[t] = "ensure_explainer_loaded"
    /\ IF explainer = None THEN Local(t, "_initialize_explainer", loc[t])
       ELSE Local(t, "explainer_or_raise", loc[t])
    /\ UNCHANGED <<epoch, calls, counters>>

\* explanation_service.py:34-35  if is_loaded(): model = get_model()
\* (an exception of get_model is caught at line 44 and unsets the explainer)
ExplainerGetModel(t) ==
    /\ pc[t] = "_initialize_explainer"
    /\ IF is_loaded(Store)
       THEN Local(t, "TreeExplainer", [loc[t] EXCEPT !.model = _model])
       ELSE Local(t, "explainer_or_raise", loc[t])
    /\ UNCHANGED <<epoch, calls, counters>>

\* explanation_service.py:39  self.explainer = shap.TreeExplainer(model)
\* explanation_service.py:44-46  except: self.explainer = None
ExplainerBuild(t) ==
    /\ pc[t] = "TreeExplainer"
    /\ IF loc[t].model.tree
       THEN /\ Step(t, "explainer_or_raise", [loc[t] EXCEPT !.built = TRUE],
                    Store, [obj |-> "explainer", model |-> loc[t].model])
            /\ explainerBuilds' = explainerBuilds + 1
       ELSE /\ Step(t, "explainer_or_raise", loc[t], Store, None)
            /\ UNCHANGED explainerBuilds
    /\ UNCHANGED <<epoch, calls, modelLoads, prepLoads>>

\* explanation_service.py:55-56  if self.explainer is None: raise
ExplainerRecheck(t) ==
    /\ pc[t] = "explainer_or_raise"
    /\ IF explainer = None THEN Raise(t, ExplainerError)
       ELSE Local(t, "get_feature_columns", loc[t])
    /\ UNCHANGED <<epoch, calls, counters>>

\* explanation_service.py:84  shap_values = self.explainer.shap_values(X)
ShapValues(t) ==
    /\ pc[t] = "shap_values"
    /\ IF explainer = None THEN Raise(t, Err("AttributeError", "explainer"))
       ELSE Done(t)
    /\ UNCHANGED <<epoch, calls, counters>>

ThreadNext ==
    \E t \in Threads :
        \/ StartInitialize(t)
        \/ LoadModelCheck(t)
        \/ LoadModelRead(t)
        \/ LoadModelSetModel(t)
        \/ LoadModelSetColumns(t)
        \/ LoadPreprocessorCheck(t)
        \/ LoadPreprocessorRead(t)
        \/ SetLabelEncoder(t)
        \/ SetScaler(t)
        \/ SetFeatureColumns(t)
        \/ StartReload(t)
        \/ ClearModel(t)
        \/ ClearPreprocessor(t)
        \/ ClearFeatureColumns(t)
        \/ ClearLabelEncoder(t)
        \/ ClearScaler(t)
        \/ StartPredict(t)
        \/ ReadFeatureColumns(t)
        \/ ReadScaler(t)
        \/ ReadModel(t)
        \/ ReadLabelEncoder(t)
        \/ StartExplain(t)
        \/ ExplainerCheck(t)
        \/ ExplainerGetModel(t)
        \/ ExplainerBuild(t)
        \/ ExplainerRecheck(t)
        \/ ShapValues(t)

SpecThreads == Init /\ [][ThreadNext]_vars

(***************************************************************************)
(* SpecAttribution: the part of explain_prediction that follows the        *)
(* explainer (explanation_service.py:80-128), applied to what predict and  *)
(* the explainer returned; the call is made directly or through the route. *)
(***************************************************************************)
\* the classes of the label codec, in the codec's order
CodecClasses == <<"BENIGN", "DoS">>

\* the class codes a classifier may predict: those of the codec and one the
\* codec does not know
ModelCodes == 0..Len(CodecClasses)

\* attribution values
ImpactValues == {-2, -1, 1}
ImpactVectors(names) == [1..Len(names) -> ImpactValues]

\* values of top_n tried: the route admits 1..50
TopNs == {-1, 0, 1, 2, 3, 4, 51}

\* what explainer.shap_values(X) and explainer.expected_value are for one
\* sample, by the container shap returns them in:
\*   "list"     a list with one (1, F) array per class, baseline an ndarray
\*   "ndarray3" one (1, F, C) array for all classes, baseline an ndarray
\*   "ndarray2" one (1, F) array of a single-output model, baseline a float
\* vectors[c][i] is the attribution of feature i for class c
PerClassBaseline == [shape |-> "ndarray", values |-> <<10, 20>>]
ScalarBaseline == [shape |-> "float", values |-> <<5>>]
ShapOutputs(names) ==
    {[shape |-> sh, vectors |-> <<v0, v1>>,
      expected_value |-> PerClassBaseline] :
        sh \in {"list", "ndarray3"},
        v0 \in ImpactVectors(names), v1 \in ImpactVectors(names)}
    \cup
    {[shape |-> "ndarray2", vectors |-> <<v>>,
      expected_value |-> ScalarBaseline] : v \in ImpactVectors(names)}

\* the inputs of one attribution
AttributionInput(names, sv, code, n) ==
    [feature_names |-> names, shap |-> sv, classes |-> CodecClasses,
     encoded |-> code, top_n |-> n]

Abs(x) == IF x < 0 THEN -x ELSE x

\* an inverse_transform that decodes an unknown code as the first class
inverse_transform_defaulting(classes, code) ==
    [err |-> NoError,
     label |-> IF code + 1 \in DOMAIN classes THEN classes[code + 1]
               ELSE classes[1]]

\* label_encoder.inverse_transform([code])[0]
inverse_transform(classes, code) ==
    IF code + 1 \in DOMAIN classes
    THEN [err |-> NoError, label |-> classes[code + 1]]
    ELSE [err |-> Err("ValueError", "unseen labels"), label |-> "none"]

\* list(classes).index(label): the 0-based position, or ValueError
RECURSIVE IndexFrom(_, _, _)
IndexFrom(classes, label, k) ==
    IF k > Len(classes) THEN -1
    ELSE IF classes[k] = label THEN k - 1
    ELSE IndexFrom(classes, label, k + 1)
index(classes, label) == IndexFrom(classes, label, 1)

\* float(a) of a numpy value with these entries: a value of one entry
\* converts, a longer one raises TypeError
CanFloat(entries) == Len(entries) = 1

\* list.sort(key=abs(impact), reverse=True): stable, entries of equal key
\* keep their order
\* a sort step that puts an entry before the entries of equal key
RECURSIVE InsertBeforeEqual(_, _)
InsertBeforeEqual(sorted, e) ==
    IF sorted = << >> THEN <<e>>
    ELSE IF Abs(Head(sorted).impact) > Abs(e.impact)
    THEN <<Head(sorted)>> \o InsertBeforeEqual(Tail(sorted), e)
    ELSE <<e>> \o sorted

RECURSIVE InsertByAbs(_, _)
InsertByAbs(sorted, e) ==
    IF sorted = << >> THEN <<e>>
    ELSE IF Abs(Head(sorted).impact) >= Abs(e.impact)
    THEN <<Head(sorted)>> \o InsertByAbs(Tail(sorted), e)
    ELSE <<e>> \o sorted
RECURSIVE SortByAbs(_, _)
SortByAbs(done, todo) ==
    IF todo = << >> THEN done
    ELSE SortByAbs(InsertByAbs(done, Head(todo)), Tail(todo))

\* a slice that keeps the last n entries
SliceLast(s, n) ==
    IF n >= Len(s) THEN s
    ELSE IF n > 0 THEN SubSeq(s, Len(s) - n + 1, Len(s))
    ELSE << >>

\* s[:n]
SliceTo(s, n) ==
    IF n >= Len(s) THEN s
    ELSE IF n >= 0 THEN SubSeq(s, 1, n)
    ELSE IF Len(s) + n > 0 THEN SubSeq(s, 1, Len(s) + n)
    ELSE << >>

\* the outcome of a call of SpecAttribution / SpecReconcile
Gave(e, r) == [err |-> e, ret |-> r]

\* explanation_service.py:80-128 on the inputs i, top_n included
explain_prediction_body(i) ==
    LET names == i.feature_names
        sv == i.shap
        ev == sv.expected_value
        dec == inverse_transform(i.classes, i.encoded)
        isList == sv.shape = "list"
        \* line 93: prediction_idx
        idx == index(i.classes, dec.label)
        \* lines 94, 97, 104: the entries of shap_values_flat[k]
        rows == [k \in 1..Len(names) |->
                   IF isList THEN <<sv.vectors[idx + 1][k]>>
                   ELSE IF sv.shape = "ndarray2" THEN <<sv.vectors[1][k]>>
                   ELSE [c \in 1..Len(sv.vectors) |-> sv.vectors[c][k]]]
        \* lines 95, 98: base_value_class
        base == IF isList /\ ev.shape = "ndarray" THEN <<ev.values[idx + 1]>>
                ELSE ev.values
        \* lines 106-112
        feature_importance ==
            [k \in 1..Len(names) |->
                [feature |-> names[k], impact |-> rows[k][1]]]
        \* line 115
        sorted == SortByAbs(<< >>, feature_importance)
        \* line 118
        top_features == SliceTo(sorted, i.top_n)
    IN  IF dec.err # NoError THEN Gave(dec.err, None)
        ELSE IF isList /\ idx < 0
        THEN Gave(Err("ValueError", "not in list"), None)
        ELSE IF \E k \in 1..Len(names) : ~CanFloat(rows[k])
        THEN Gave(Err("TypeError", "impact"), None)
        ELSE IF ~CanFloat(base)
        THEN Gave(Err("TypeError", "base_value"), None)
        ELSE Gave(NoError,
                  [prediction |-> dec.label,
                   top_features |-> top_features,
                   base_value |-> base[1],
                   all_features |-> sorted])

\* routes/explain.py:36-80: top_n: int = Query(10, ge=1, le=50), then the
\* service; the response carries prediction, top_features and base_value
explain_route(i) ==
    LET o == explain_prediction_body(i)
    IN  IF i.top_n < 1 \/ i.top_n > 50
        THEN Gave(Err("RequestValidationError", "top_n"), None)
        ELSE IF o.err # NoError THEN o
        ELSE Gave(NoError,
                  [prediction |-> o.ret.prediction,
                   top_features |-> o.ret.top_features,
                   base_value |-> o.ret.base_value])

InitAttribution ==
    /\ InitServices
    /\ \E names \in PrepCols :
       \E sv \in ShapOutputs(names), code \in ModelCodes, n \in TopNs :
          inp = AttributionInput(names, sv, code, n)
    /\ outp = None

\* the HTTP status of a route: 422 from FastAPI when the request does not
\* validate, 200 when the handler returns, 400 from "except ValueError",
\* 500 from "except Exception"; a direct call has none
status_code(via, err) ==
    IF via # "route" THEN 0
    ELSE IF err.type = "RequestValidationError" THEN 422
    ELSE IF err = NoError THEN 200
    ELSE IF err.type = "ValueError" THEN 400
    ELSE 500

\* a call moves nothing but its own outcome
Answer(via, o) ==
    /\ outp = None
    /\ outp' = [via |-> via, err |-> o.err, ret |-> o.ret,
                status |-> status_code(via, o.err)]
    /\ UNCHANGED <<serviceVars, inp>>

\* explanation_service.explain_prediction(features, top_n) called directly
ExplainDirect == Answer("service", explain_prediction_body(inp))

\* POST /explain?top_n=..
ExplainRoute == Answer("route", explain_route(inp))

NextAttribution == ExplainDirect \/ ExplainRoute

SpecAttribution == InitAttribution /\ [][NextAttribution]_vars

(***************************************************************************)
(* SpecReconcile: one request record, from the JSON body to the prediction *)
(***************************************************************************)
\* keys a request may carry: the schema names and one that is in no schema
FeatureKeys == {"f1", "f2", "f3", "zz"}

\* JSON values of a request: numbers, a string that spells a number, and a
\* string that spells none
RawValues ==
    {[json |-> "number", v |-> 1], [json |-> "number", v |-> 2],
     [json |-> "numeric string", v |-> 3], [json |-> "text", v |-> 0]}

\* the items of a dict, in insertion order
Item(k, x) == [key |-> k, value |-> x]

\* one request: the body, the schema of the store and the names the scaler
\* of the store was fitted on
ReconcileInput(ks, xs, cols, fitted) ==
    [features |-> [j \in 1..Len(ks) |-> Item(ks[j], xs[j])],
     expected_features |-> cols,
     scaler |-> [names |-> fitted,
                 mean |-> [j \in 1..Len(fitted) |-> j]]]

\* a FlowFeatures that takes a string of any content for a number
FlowFeaturesLenient(body) ==
    [err |-> NoError, loc |-> {},
     features |-> [j \in 1..Len(body) |-> Item(body[j].key, body[j].value.v)]]

\* FlowFeatures(features=body): pydantic converts every value of
\* Dict[str, float] (a number as it is, a string by parsing it) and reports
\* the keys whose value has no conversion; validate_features then runs on
\* the converted dict, where every value is a float already
FlowFeatures(body) ==
    LET bad == {body[j].key : j \in {k \in 1..Len(body) :
                                        body[k].value.json = "text"}}
    IN  IF bad # {}
        THEN [err |-> Err("RequestValidationError", "float_parsing"),
              loc |-> bad, features |-> << >>]
        ELSE IF body = << >>
        THEN [err |-> Err("RequestValidationError", "cannot be empty"),
              loc |-> {}, features |-> << >>]
        ELSE [err |-> NoError, loc |-> {},
              features |->
                  [j \in 1..Len(body) |-> Item(body[j].key, body[j].value.v)]]

\* pd.DataFrame([features]): one column per key, in the order of the dict
DataFrame(features) ==
    [j \in 1..Len(features) |->
        [name |-> features[j].key, column |-> features[j].value]]

\* set(expected_features) - set(feature_df.columns)
missing_features(expected, df) ==
    {expected[i] : i \in 1..Len(expected)} \ {df[j].name : j \in 1..Len(df)}

\* the orders in which a Python set may be iterated
Orders(S) ==
    {o \in [1..Cardinality(S) -> S] :
        \A j, k \in 1..Cardinality(S) : o[j] = o[k] => j = k}

\* a fill that sets the missing columns to 1
FillWithOnes(df, order) ==
    df \o [j \in 1..Len(order) |-> [name |-> order[j], column |-> 1]]

\* for feat in missing_features: feature_df[feat] = 0
FillMissing(df, order) ==
    df \o [j \in 1..Len(order) |-> [name |-> order[j], column |-> 0]]

\* a selection that keeps the expected columns in the order of the frame
RECURSIVE SelectInFrameOrder(_, _)
SelectInFrameOrder(df, expected) ==
    IF df = << >> THEN << >>
    ELSE IF \E i \in 1..Len(expected) : expected[i] = Head(df).name
    THEN <<Head(df).column>> \o SelectInFrameOrder(Tail(df), expected)
    ELSE SelectInFrameOrder(Tail(df), expected)

\* feature_df[expected_features]
Select(df, expected) ==
    [i \in 1..Len(expected) |->
        df[CHOOSE j \in 1..Len(df) : df[j].name = expected[i]].column]

\* scaler.transform(feature_df): refuses a frame whose column names are not
\* the names it was fitted on, else centres every slot on its own mean
transform(scaler, names, row) ==
    IF names # scaler.names
    THEN [err |-> Err("ValueError", "sklearn"), X |-> << >>]
    ELSE [err |-> NoError,
          X |-> [i \in 1..Len(row) |-> row[i] - scaler.mean[i]]]

\* prepare_features(features), the missing names filled in the given order
prepare_features_steps(i, features, order) ==
    LET feature_df == DataFrame(features)
        filled == FillMissing(feature_df, order)
        row == Select(filled, i.expected_features)
        scaled == transform(i.scaler, i.expected_features, row)
    IN  [err |-> scaled.err,
         ret |-> IF scaled.err = NoError THEN scaled.X ELSE None,
         loc |-> {},
         warned |-> order # << >>,
         frame |-> row,
         steps |-> <<"reconcile", "scale">>]

\* POST /predict: FastAPI builds FlowFeatures from the body, then the
\* handler calls predict(flow_features.features)
predict_route(i, order) ==
    LET flow_features == FlowFeatures(i.features)
        X == prepare_features_steps(i, flow_features.features, order)
        code == SumSeq(X.ret) % Len(CodecClasses)
    IN  IF flow_features.err # NoError
        THEN [err |-> flow_features.err, ret |-> None,
              loc |-> flow_features.loc, warned |-> FALSE,
              frame |-> << >>, steps |-> <<"validate">>]
        ELSE IF X.err # NoError
        THEN [X EXCEPT !.steps = <<"validate">> \o X.steps]
        ELSE [X EXCEPT !.ret = [prediction |-> CodecClasses[code + 1]],
                       !.steps = <<"validate">> \o X.steps \o <<"predict">>]

\* every value of the dict is a float, as the signature of prepare_features
\* says
IsFloatDict(features) ==
    \A j \in 1..Len(features) : features[j].value.json = "number"

InitReconcile ==
    /\ InitServices
    /\ \E n \in 1..MaxKeys :
       \E ks \in [1..n -> FeatureKeys], xs \in [1..n -> RawValues] :
       \E cols \in PrepCols, fitted \in PrepCols :
          /\ \A j, k \in 1..n : ks[j] = ks[k] => j = k
          /\ inp = ReconcileInput(ks, xs, cols, fitted)
    /\ outp = None

\* a call moves nothing but its own outcome
Reply(via, o) ==
    /\ outp = None
    /\ outp' = [via |-> via, err |-> o.err, ret |-> o.ret, loc |-> o.loc,
                warned |-> o.warned, frame |-> o.frame, steps |-> o.steps]
    /\ UNCHANGED <<serviceVars, inp>>

\* prediction_service.prepare_features(features) on a dict of floats
PrepareFeaturesCall ==
    /\ IsFloatDict(inp.features)
    /\ LET features == FlowFeatures(inp.features).features
       IN  \E order \in
                Orders(missing_features(inp.expected_features,
                                        DataFrame(features))) :
              Reply("prepare_features",
                    prepare_features_steps(inp, features, order))

\* POST /predict with the record as the body
PredictRoute ==
    LET flow_features == FlowFeatures(inp.features)
    IN  \E order \in
             Orders(missing_features(inp.expected_features,
                                     DataFrame(flow_features.features))) :
           Reply("route", predict_route(inp, order))

NextReconcile == PrepareFeaturesCall \/ PredictRoute

SpecReconcile == InitReconcile /\ [][NextReconcile]_vars

(***************************************************************************)
(* SpecPredict: the results of the prediction calls                        *)
(***************************************************************************)
\* label_encoder.classes_ of a codec of four classes
LabelClasses == <<"BENIGN", "DoS", "PortScan", "Bot">>

\* What the classifier gives for one record: prepare_features raises (a
\* value the scaler refuses), or model.predict(X)[0] gives a class code and
\* model.predict_proba(X)[0], where the classifier has it, one probability
\* per class of the classifier, in hundredths, the code being the first
\* class of the largest probability.
ClassifierOutcomes ==
    {[fails |-> TRUE, code |-> 0, proba |-> << >>]} \cup
    {[fails |-> FALSE, code |-> c, proba |-> << >>] :
        c \in 0..(Len(LabelClasses) - 1)} \cup
    {[fails |-> FALSE, proba |-> p,
      code |-> (CHOOSE k \in 1..Len(p) :
                   /\ \A j \in 1..Len(p) : p[j] <= p[k]
                   /\ \A j \in 1..(k - 1) : p[j] < p[k]) - 1] :
        p \in {q \in [1..Len(LabelClasses) -> {10 * x : x \in 0..10}] :
                  SumSeq(q) = 100}}

\* a predict that takes the probability of the first class for confidence
predict_body_first_class(classes, item) ==
    LET dec == inverse_transform(classes, item.code)
    IN  IF item.fails THEN Gave(Err("ValueError", "sklearn"), None)
        ELSE IF dec.err # NoError THEN Gave(dec.err, None)
        ELSE Gave(NoError,
                  [prediction |-> dec.label,
                   confidence |-> IF item.proba = << >> THEN 100
                                  ELSE item.proba[1],
                   probabilities |->
                       IF item.proba = << >> THEN << >>
                       ELSE [k \in 1..Len(classes) |->
                                [label |-> classes[k],
                                 prob |-> item.proba[k]]]])

\* predict(features) from line 75 on: confidence is 1.0 and the map empty
\* unless the classifier has predict_proba; then confidence is np.max(proba)
\* and the map is zip(class_names, proba), which stops at the shorter of the
\* two; the label is decoded last
predict_body(classes, item) ==
    LET proba == item.proba
        n == IF Len(classes) < Len(proba) THEN Len(classes) ELSE Len(proba)
        confidence ==
            IF proba = << >> THEN 100
            ELSE proba[CHOOSE k \in 1..Len(proba) :
                          \A j \in 1..Len(proba) : proba[j] <= proba[k]]
        probabilities ==
            [k \in 1..n |-> [label |-> classes[k], prob |-> proba[k]]]
        dec == inverse_transform(classes, item.code)
    IN  IF item.fails THEN Gave(Err("ValueError", "sklearn"), None)
        ELSE IF dec.err # NoError THEN Gave(dec.err, None)
        ELSE Gave(NoError,
                  [prediction |-> dec.label, confidence |-> confidence,
                   probabilities |-> probabilities])

\* a sort of the map without reverse=True
RECURSIVE sorted_probs_ascending(_)
sorted_probs_ascending(m) ==
    IF m = << >> THEN << >>
    ELSE LET k == CHOOSE k \in 1..Len(m) :
                    /\ \A j \in 1..Len(m) : m[k].prob <= m[j].prob
                    /\ \A j \in 1..(k - 1) : m[k].prob < m[j].prob
         IN  <<m[k]>> \o
             sorted_probs_ascending(
                 SubSeq(m, 1, k - 1) \o SubSeq(m, k + 1, Len(m)))

\* sorted(probabilities.items(), key=lambda x: x[1], reverse=True): largest
\* first, equal probabilities in the order of the map
RECURSIVE sorted_probs(_)
sorted_probs(m) ==
    IF m = << >> THEN << >>
    ELSE LET k == CHOOSE k \in 1..Len(m) :
                    /\ \A j \in 1..Len(m) : m[j].prob <= m[k].prob
                    /\ \A j \in 1..(k - 1) : m[j].prob < m[k].prob
         IN  <<m[k]>> \o
             sorted_probs(SubSeq(m, 1, k - 1) \o SubSeq(m, k + 1, Len(m)))

\* a tiering whose thresholds are exclusive
_get_threat_level_exclusive(prediction, confidence) ==
    IF prediction = "BENIGN" THEN "NONE"
    ELSE IF confidence > 90 THEN "CRITICAL"
    ELSE IF confidence > 70 THEN "HIGH"
    ELSE IF confidence > 50 THEN "MEDIUM"
    ELSE "LOW"

\* _get_threat_level(prediction, confidence), confidence in hundredths
_get_threat_level(prediction, confidence) ==
    IF prediction = "BENIGN" THEN "NONE"
    ELSE IF confidence >= 90 THEN "CRITICAL"
    ELSE IF confidence >= 70 THEN "HIGH"
    ELSE IF confidence >= 50 THEN "MEDIUM"
    ELSE "LOW"

\* get_prediction_details(features)
prediction_details(classes, item) ==
    LET p == predict_body(classes, item)
    IN  IF p.err # NoError THEN p
        ELSE Gave(NoError,
                  [prediction |-> p.ret.prediction,
                   confidence |-> p.ret.confidence,
                   probabilities |-> p.ret.probabilities,
                   top_3_predictions |->
                       SliceTo(sorted_probs(p.ret.probabilities), 3),
                   is_attack |-> p.ret.prediction # "BENIGN",
                   threat_level |->
                       _get_threat_level(p.ret.prediction,
                                         p.ret.confidence)])

\* a batch_predict that stops at the first record that fails
RECURSIVE batch_results_aborting(_, _)
batch_results_aborting(classes, items) ==
    IF items = << >> THEN << >>
    ELSE LET p == predict_body(classes, Head(items))
         IN  IF p.err # NoError THEN <<[prediction |-> "ERROR",
                                        confidence |-> 0]>>
             ELSE <<[prediction |-> p.ret.prediction,
                     confidence |-> p.ret.confidence]>>
                  \o batch_results_aborting(classes, Tail(items))

\* batch_predict(features_list): the list it returns
RECURSIVE batch_results(_, _)
batch_results(classes, items) ==
    IF items = << >> THEN << >>
    ELSE LET p == predict_body(classes, Head(items))
         IN  <<IF p.err # NoError
               THEN [prediction |-> "ERROR", confidence |-> 0]
               ELSE [prediction |-> p.ret.prediction,
                     confidence |-> p.ret.confidence]>>
             \o batch_results(classes, Tail(items))

\* the input is the codec and what the classifier gives for the records of
\* a call, or a label and a confidence for _get_threat_level
InitPredict ==
    /\ InitServices
    /\ \/ \E n \in 1..MaxItems :
          \E classes \in {LabelClasses,
                          SubSeq(LabelClasses, 1, Len(LabelClasses) - 1)} :
          \E items \in [1..n -> ClassifierOutcomes] :
             inp = [classes |-> classes, items |-> items]
       \/ \E label \in {LabelClasses[k] : k \in 1..Len(LabelClasses)} :
          \E confidence \in 0..100 :
             inp = [label |-> label, confidence |-> confidence]
    /\ outp = None

\* prediction_service.predict(features)
PredictCall ==
    /\ "items" \in DOMAIN inp
    /\ Len(inp.items) = 1
    /\ Answer("predict", predict_body(inp.classes, inp.items[1]))

\* prediction_service.get_prediction_details(features)
DetailsCall ==
    /\ "items" \in DOMAIN inp
    /\ Len(inp.items) = 1
    /\ Answer("get_prediction_details",
              prediction_details(inp.classes, inp.items[1]))

\* prediction_service.batch_predict(features_list)
BatchCall ==
    /\ "items" \in DOMAIN inp
    /\ Answer("batch_predict",
              Gave(NoError,
                   [results |-> batch_results(inp.classes, inp.items)]))

\* prediction_service._get_threat_level(prediction, confidence)
ThreatLevelCall ==
    /\ "confidence" \in DOMAIN inp
    /\ Answer("_get_threat_level",
              Gave(NoError,
                   [threat_level |->
                       _get_threat_level(inp.label, inp.confidence)]))

NextPredict == PredictCall \/ DetailsCall \/ BatchCall \/ ThreatLevelCall

SpecPredict == InitPredict /\ [][NextPredict]_vars

(***************************************************************************)
(* Properties of Spec                                                      *)
(***************************************************************************)
\* the load calls; lifespan is the initialize() of the startup
LoadOps ==
    {"load_model", "load_preprocessor", "initialize", "reload", "lifespan"}
GetterOps ==
    {"get_model", "get_label_encoder", "get_scaler", "get_feature_columns"}
RequestOps ==
    {"prepare_features", "predict", "batch_predict",
     "get_prediction_details", "explain_prediction",
     "explain_with_visualization_data", "get_feature_contribution_summary"}

\* the attributes load_preprocessor sets from its bundle
prepVars == <<_preprocessor, _label_encoder, _scaler>>

\* C1: once the model (resp. the preprocessor) is cached, a further
\* load_model (resp. load_preprocessor) call with any path returns the
\* cached object, reads nothing and changes no attribute; initialize reads
\* neither cached bundle again and leaves it in place; a cached bundle is
\* read again by reload() only.
C1_CachedLoadReadsNothing ==
    [][ /\ ((last'.op = "load_model" /\ _model # None) =>
               (/\ last'.reads = {}
                /\ last'.err = NoError
                /\ last'.ret = _model
                /\ UNCHANGED storeVars))
        /\ ((last'.op = "load_preprocessor" /\ _preprocessor # None) =>
               (/\ last'.reads = {}
                /\ last'.err = NoError
                /\ last'.ret = _preprocessor
                /\ UNCHANGED storeVars))
        /\ ((last'.op = "initialize" /\ _model # None) =>
               (/\ "model" \notin last'.reads
                /\ _model' = _model))
        /\ ((last'.op = "initialize" /\ _preprocessor # None) =>
               (/\ "preprocessor" \notin last'.reads
                /\ UNCHANGED prepVars))
        /\ ((last'.op = "initialize" /\ _model # None
               /\ _preprocessor # None) =>
               (/\ last'.err = NoError
                /\ UNCHANGED storeVars))
        /\ ((_model # None /\ "model" \in last'.reads) =>
               last'.op = "reload")
        /\ ((_preprocessor # None /\ "preprocessor" \in last'.reads) =>
               last'.op = "reload")
      ]_vars

\* C1 witness: load_model, called with another path than the one the cached
\* model was read from, has returned the cached model without a read.
C1_Witness ==
    /\ last.op = "load_model"
    /\ last.reads = {}
    /\ _model # None
    /\ last.ret = _model
    /\ last.arg.path # _model.src

\* C2: is_loaded(), get_model_info() and the health check report the store
\* as loaded only when the model, the feature-name list, the label codec and
\* the scaler are all present.
C2_ReadyOnlyWhenComplete ==
    /\ ((last.op = "is_loaded" /\ last.ret.value) => AllPresent(Store))
    /\ ((last.op = "get_model_info" /\ last.err = NoError
           /\ last.ret.loaded) => AllPresent(Store))
    /\ ((last.op = "health_check" /\ last.ret.model_loaded) =>
           AllPresent(Store))

\* C5: an explanation is computed with an explainer built from the
\* classifier the store holds.
C5_ExplainerOfCurrentModel ==
    (last.op = "explain_prediction" /\ last.err = NoError) =>
        (last.ret.explained_with = _model)

\* the bundles in the store respect the boundary contract: the classifier
\* bundle names no other feature list than the preprocessor bundle
SameFeatureList(S) ==
    (S.feature_columns # None /\ S.preprocessor # None) =>
        (S.feature_columns.list \in {<< >>, S.preprocessor.feature_columns})

\* C6: predict and get_prediction_details fail with the not-loaded error,
\* without a result, until a load call has returned for both bundles, and
\* succeed afterwards (for bundles that name the same feature list).
C6_NotLoadedThenServed ==
    (last.op \in {"predict", "get_prediction_details"}
       /\ SameFeatureList(Store)) =>
        (IF loads_ok = {"model", "preprocessor"}
         THEN last.err = NoError
         ELSE last.err \in NotLoadedErrors /\ last.ret = None)

\* C7: no getter returns None; with only the model loaded get_model()
\* succeeds and get_scaler(), get_label_encoder() raise the not-loaded
\* error; with only the preprocessor loaded it is the other way round.
C7_HalvesFailIndependently ==
    (last.op \in GetterOps) =>
        (/\ (last.err = NoError => last.ret # None)
         /\ ((_model # None /\ _preprocessor = None) =>
                (IF last.op \in {"get_model", "get_feature_columns"}
                 THEN last.err = NoError
                 ELSE last.err = PreprocessorNotLoaded))
         /\ ((_model = None /\ _preprocessor # None) =>
                (IF last.op = "get_model" THEN last.err = ModelNotLoaded
                 ELSE (last.op \in {"get_scaler", "get_label_encoder"} =>
                          last.err = NoError))))

\* TreeExplainer can be built now: both bundles are cached and the
\* classifier is one it supports
CanConstruct == _model # None /\ _preprocessor # None /\ _model.tree

\* C8: an explain call that finds no explainer and cannot build one reports
\* the error and leaves the explainer unset; an explain call that finds no
\* explainer and can build one builds it, for the classifier of the store,
\* and does not report the construction error.
C8_FailureNotCached ==
    [][ (last'.op = "explain_prediction" /\ explainer = None) =>
            (IF CanConstruct
             THEN /\ explainer' # None
                  /\ explainer'.model = _model
                  /\ last'.err # ExplainerError
             ELSE /\ explainer' = None
                  /\ last'.err = ExplainerError
                  /\ last'.ret = None)
      ]_vars

\* C8 witness: an explain call failed on construction for an unsupported
\* classifier, and after reload() an explain call built the explainer and
\* returned an explanation.
C8_Witness ==
    /\ build_failed
    /\ epoch > 0
    /\ last.op = "explain_prediction"
    /\ last.err = NoError
    /\ explainer # None
    /\ explainer.model = _model

\* C10: a request-path call leaves every attribute of the loader as it was;
\* prepare_features called again with the same record gives the same
\* vector; the attributes change in load and reload calls only.
C10_RequestsLeaveStore ==
    [][ /\ (last'.op \in RequestOps => UNCHANGED storeVars)
        /\ ((last.op = "prepare_features" /\ last'.op = "prepare_features"
               /\ last'.arg = last.arg) => last'.ret = last.ret)
        /\ (UNCHANGED storeVars \/ last'.op \in LoadOps)
      ]_vars

\* C10 witness: an explanation was computed, and the store is still loaded.
C10_Witness ==
    /\ last.op = "explain_prediction"
    /\ last.err = NoError
    /\ AllPresent(Store)

\* C11: when both bundles are loaded, in either order, the feature-name list
\* of the store is the list of the classifier bundle when that list is not
\* empty and the list of the preprocessor bundle when it is empty.  (After
\* load_model alone the store's list is the classifier bundle's list; the
\* classifier bundle read second is some bundle that holds the model now
\* cached.)
C11_ListOfClassifierElsePreprocessor ==
    [][ /\ ((/\ last'.op = "load_preprocessor"
              /\ "preprocessor" \in last'.reads
              /\ last'.err = NoError
              /\ _model # None
              /\ _feature_columns # None) =>
               (_feature_columns' =
                   IF _feature_columns.list # << >> THEN _feature_columns
                   ELSE PyList(_preprocessor'.feature_columns)))
        /\ ((/\ last'.op = "load_model"
              /\ "model" \in last'.reads
              /\ last'.err = NoError
              /\ _preprocessor # None
              /\ _preprocessor.keys = AllKeys) =>
               (\E f \in ModelFiles(last'.arg.path, epoch) :
                   /\ f.kind = "ok"
                   /\ f.model = _model'
                   /\ _feature_columns' =
                         PyList(IF f.feature_columns # << >>
                                THEN f.feature_columns
                                ELSE _preprocessor.feature_columns)))
      ]_vars

\* C22: when the load at startup failed, the health check that follows
\* answers status "degraded" with model_loaded false, and a prediction
\* request that follows raises an error.
C22_FailedStartupIsDegraded ==
    [][(last.op = "lifespan" /\ last.ret.failed) =>
          /\ (last'.op = "health_check" =>
                /\ last'.ret.status = "degraded"
                /\ ~last'.ret.model_loaded)
          /\ (last'.op \in {"predict", "get_prediction_details"} =>
                last'.err # NoError)]_vars

\* C27: a load_model or load_preprocessor call that raises leaves the five
\* attributes of the store as they were before the call.
C27_FailedLoadLeavesStore ==
    [][(last'.op \in {"load_model", "load_preprocessor"}
          /\ last'.err # NoError) => UNCHANGED storeVars]_vars

\* C28: after a reload() that raised, none of the objects cached before it
\* is in the store, is_loaded() is false, and predict and
\* explain_prediction raise when they are called next.
C28_FailedReloadLeavesNotLoaded ==
    [][(last.op = "reload" /\ last.err # NoError) =>
          /\ ~is_loaded(Store)
          /\ \A o \in {_model, _preprocessor, _label_encoder, _scaler} :
                o # None => o.gen = epoch
          /\ (last'.op \in {"predict", "explain_prediction"} =>
                last'.err # NoError)]_vars

\* C29: when reload() has returned or raised, every object in the store was
\* read by this reload from the built-in paths, whatever paths the store
\* was loaded from before.
C29_ReloadReadsDefaultPaths ==
    last.op = "reload" =>
        \A o \in {_model, _preprocessor, _label_encoder, _scaler} :
            o # None => (o.src = DefaultPath /\ o.gen = epoch)

\* C29 witness: the store was loaded from the other path (the explainer
\* still holds the classifier read from it) and a reload has succeeded.
C29_Witness ==
    /\ last.op = "reload"
    /\ last.err = NoError
    /\ explainer # None
    /\ explainer.model.src = OtherPath
    /\ _model.src = DefaultPath
    /\ _preprocessor.src = DefaultPath

(***************************************************************************)
(* Properties of SpecThreads                                               *)
(***************************************************************************)
RequestCalls == {"predict", "explain_prediction"}

\* C3: while the store has never been reloaded, concurrent load calls read
\* each bundle from storage at most once, and no predict or explain call is
\* handed an artifact while a load that reads a bundle is still running.
C3_LoadedOnceBeforeRequests ==
    (epoch = 0) =>
        (/\ modelLoads <= 1
         /\ prepLoads <= 1
         /\ \A t \in Threads :
               (loc[t].op \in RequestCalls) => ~loc[t].early)

\* C4: a predict or explain call that starts on a complete store of one
\* generation is handed objects of one generation only (all from before the
\* reload or all from after it) and never finds an attribute cleared.
C4_ReloadIsAtomic ==
    \A t \in Threads :
        (loc[t].op \in RequestCalls /\ loc[t].ready) =>
            (/\ Cardinality(loc[t].gens) <= 1
             /\ loc[t].err \notin NotLoadedErrors)

\* C9: concurrent explain calls construct the explainer at most once, and a
\* caller whose own construction succeeded does not report that the
\* explainer could not be initialized.
C9_ExplainerBuiltOnce ==
    /\ explainerBuilds <= 1
    /\ \A t \in Threads : loc[t].built => loc[t].err # ExplainerError

(***************************************************************************)
(* Properties of SpecAttribution                                           *)
(***************************************************************************)
\* the explanation call has returned a result
Explained == outp # None /\ outp.err = NoError

\* the number of schema features
SchemaLength == Len(inp.feature_names)

\* the position of a feature name in the schema
SchemaPosition(name) ==
    CHOOSE k \in 1..SchemaLength : inp.feature_names[k] = name

\* the codec's index of the label predict() returned
PredictedIndex == index(inp.classes, inp.classes[inp.encoded + 1])

\* C12: explain_prediction, called directly or through the route, answers a
\* top_n below 1 or above the number of schema features with an error.
C12_TopNOutOfRangeRejected ==
    (outp # None /\ (inp.top_n < 1 \/ inp.top_n > SchemaLength)) =>
        (outp.err # NoError)

\* C13: for 1 <= top_n <= schema length, top_features has exactly top_n
\* entries, is the first top_n entries of all_features, and no entry left
\* out has a larger absolute impact than an entry included.
C13_TopNIsPrefix ==
    (Explained /\ outp.via = "service"
       /\ inp.top_n >= 1 /\ inp.top_n <= SchemaLength) =>
        LET top == outp.ret.top_features
            all == outp.ret.all_features
        IN  /\ Len(top) = inp.top_n
            /\ top = SubSeq(all, 1, inp.top_n)
            /\ \A j \in 1..inp.top_n : \A k \in (inp.top_n + 1)..Len(all) :
                  Abs(all[k].impact) <= Abs(top[j].impact)

\* C13 witness: two of three entries were asked for and the entry left out
\* ties with the last one included.
C13_Witness ==
    /\ Explained
    /\ outp.via = "service"
    /\ inp.top_n = 2
    /\ Len(outp.ret.all_features) = 3
    /\ Len(outp.ret.top_features) = 2
    /\ Abs(outp.ret.all_features[3].impact)
         = Abs(outp.ret.all_features[2].impact)

\* C14: all_features has one entry per schema feature name and no other,
\* in descending order of absolute impact, entries of equal absolute
\* impact in schema order.
C14_AllFeaturesStablySorted ==
    (Explained /\ outp.via = "service") =>
        LET all == outp.ret.all_features
        IN  /\ Len(all) = SchemaLength
            /\ \A k \in 1..SchemaLength :
                  Cardinality({j \in 1..Len(all) :
                      all[j].feature = inp.feature_names[k]}) = 1
            /\ \A j \in 1..Len(all) : \A k \in (j + 1)..Len(all) :
                  /\ Abs(all[j].impact) >= Abs(all[k].impact)
                  /\ (Abs(all[j].impact) = Abs(all[k].impact) =>
                        SchemaPosition(all[j].feature)
                          < SchemaPosition(all[k].feature))

\* C14 witness: the last schema feature ranks first and the other two tie
\* with opposite signs.
C14_Witness ==
    /\ Explained
    /\ outp.via = "service"
    /\ SchemaLength = 3
    /\ outp.ret.all_features[1].feature = inp.feature_names[3]
    /\ outp.ret.all_features[2].impact = 0 - outp.ret.all_features[3].impact

\* C15: for a classifier with one attribution vector per class, in either
\* container, the explanation is computed and every impact is the entry of
\* the vector at the codec's index of the predicted label.
C15_VectorOfPredictedClass ==
    (outp # None /\ outp.via = "service"
       /\ inp.shap.shape \in {"list", "ndarray3"}
       /\ inp.encoded + 1 \in DOMAIN inp.classes) =>
        (/\ outp.err = NoError
         /\ \A j \in 1..Len(outp.ret.all_features) :
               LET e == outp.ret.all_features[j]
               IN  e.impact =
                     inp.shap.vectors[PredictedIndex + 1]
                                     [SchemaPosition(e.feature)])

\* C16: the explanation is computed, and base_value is the entry of a
\* per-class baseline at the codec's index of the predicted label and a
\* single-valued baseline as it is, in every container.
C16_BaselineOfPredictedClass ==
    (outp # None /\ outp.via = "service"
       /\ inp.encoded + 1 \in DOMAIN inp.classes) =>
        (/\ outp.err = NoError
         /\ outp.ret.base_value =
               IF inp.shap.expected_value.shape = "ndarray"
               THEN inp.shap.expected_value.values[PredictedIndex + 1]
               ELSE inp.shap.expected_value.values[1])

C21_ComputationErrorsAreServerErrors ==
    (outp # None /\ outp.via = "route") =>
        /\ (outp.err.type \notin {"none", "RequestValidationError"}
              => outp.status >= 500)
        /\ (outp.status \in 400..499
              => outp.err.type = "RequestValidationError")

(***************************************************************************)
(* Properties of SpecReconcile                                             *)
(***************************************************************************)
\* C18: for every schema name the record does not carry, the slot handed to
\* the scaler holds 0 and comes out as the scaler's image of 0; the absence
\* is logged as a warning and raises nothing: prepare_features fails only
\* when the scaler was fitted on other names.
C18_MissingSlotsAreZero ==
    (outp # None /\ outp.via = "prepare_features") =>
        LET absent ==
                {i \in 1..Len(inp.expected_features) :
                    \A j \in 1..Len(inp.features) :
                        inp.features[j].key # inp.expected_features[i]}
        IN  /\ (outp.err = NoError
                  <=> inp.scaler.names = inp.expected_features)
            /\ (outp.warned <=> absent # {})
            /\ \A i \in absent :
                  /\ outp.frame[i] = 0
                  /\ (outp.err = NoError =>
                        outp.ret[i] = 0 - inp.scaler.mean[i])

\* C18 witness: a record that lacks the first schema name and carries the
\* second was prepared without error.
C18_Witness ==
    /\ outp # None
    /\ outp.via = "prepare_features"
    /\ outp.err = NoError
    /\ \A j \in 1..Len(inp.features) :
          inp.features[j].key # inp.expected_features[1]
    /\ \E j \in 1..Len(inp.features) :
          inp.features[j].key = inp.expected_features[2]
    /\ outp.warned

\* C19: the vector handed to the scaler has one slot per schema name, in
\* schema order, each holding the record's value for that name (0 without
\* one): keys outside the schema and the key order have no part in it.
C19_SchemaOrderOnly ==
    (outp # None /\ outp.via = "prepare_features") =>
        /\ Len(outp.frame) = Len(inp.expected_features)
        /\ \A i \in 1..Len(inp.expected_features) :
              LET at == {j \in 1..Len(inp.features) :
                            inp.features[j].key = inp.expected_features[i]}
              IN  /\ \A j \in at : outp.frame[i] = inp.features[j].value.v
                  /\ (at = {} => outp.frame[i] = 0)
        /\ (outp.err = NoError =>
              \A i \in 1..Len(inp.expected_features) :
                  outp.ret[i] = outp.frame[i] - inp.scaler.mean[i])

\* C19 witness: the record carries a key outside the schema first, then the
\* two schema names in reverse schema order with different values.
C19_Witness ==
    /\ outp # None
    /\ outp.via = "prepare_features"
    /\ outp.err = NoError
    /\ inp.expected_features = ColsA
    /\ Len(inp.features) = 3
    /\ inp.features[1].key = "zz"
    /\ inp.features[2].key = "f2"
    /\ inp.features[3].key = "f1"
    /\ outp.frame = <<2, 1>>

\* C20: a body with a value that spells no number is rejected when
\* FlowFeatures is built, with an error whose location is the offending
\* keys, and no step of prepare_features or predict has run.
C20_NonNumericRejectedInValidation ==
    LET offending ==
            {inp.features[j].key :
                j \in {k \in 1..Len(inp.features) :
                          inp.features[k].value.json = "text"}}
    IN  (outp # None /\ outp.via = "route" /\ offending # {}) =>
            /\ outp.err.type = "RequestValidationError"
            /\ outp.loc = offending
            /\ outp.steps = <<"validate">>
            /\ outp.ret = None

\* C20 witness: a body of two numbers and then one text value was rejected
\* with the key of the text value.
C20_Witness ==
    /\ outp # None
    /\ outp.via = "route"
    /\ Len(inp.features) = 3
    /\ inp.features[1].value.json = "number"
    /\ inp.features[2].value.json = "number"
    /\ inp.features[3].value.json = "text"
    /\ outp.loc = {inp.features[3].key}
    /\ outp.steps = <<"validate">>

(***************************************************************************)
(* Properties of SpecPredict                                               *)
(***************************************************************************)
\* C23: in a result of predict, confidence is the largest value of the
\* probability map when the map has entries, and 1.0 with an empty map
\* when the classifier gives no probabilities, which is a result and not an
\* error.
C23_ConfidenceIsMaxOfMap ==
    (outp # None /\ outp.via = "predict") =>
        LET item == inp.items[1]
        IN  /\ outp.err = NoError =>
                  LET m == outp.ret.probabilities
                      c == outp.ret.confidence
                  IN  /\ (m = << >> <=> item.proba = << >>)
                      /\ (m = << >> => c = 100)
                      /\ (m # << >> =>
                            /\ \E k \in 1..Len(m) : m[k].prob = c
                            /\ \A k \in 1..Len(m) : m[k].prob <= c)
            /\ (item.proba = << >> /\ ~item.fails
                  /\ item.code + 1 \in DOMAIN inp.classes)
                 => outp.err = NoError

\* C23 witness: predict returned a map of the three classes of the codec for
\* a classifier of four, the second class having the largest probability.
C23_Witness ==
    /\ outp # None
    /\ outp.via = "predict"
    /\ outp.err = NoError
    /\ Len(inp.items[1].proba) = 4
    /\ Len(outp.ret.probabilities) = 3
    /\ outp.ret.prediction = "DoS"
    /\ outp.ret.confidence = 50

\* C24: _get_threat_level gives NONE for BENIGN whatever the confidence,
\* and for another label CRITICAL from 0.9, HIGH from 0.7, MEDIUM from 0.5
\* and LOW below, each threshold belonging to the higher tier.
C24_ThreatLevelTable ==
    (outp # None /\ outp.via = "_get_threat_level") =>
        /\ outp.err = NoError
        /\ outp.ret.threat_level =
              CASE inp.label = "BENIGN" -> "NONE"
                [] inp.label # "BENIGN" /\ inp.confidence >= 90 -> "CRITICAL"
                [] inp.label # "BENIGN" /\ inp.confidence \in 70..89 -> "HIGH"
                [] inp.label # "BENIGN" /\ inp.confidence \in 50..69
                     -> "MEDIUM"
                [] inp.label # "BENIGN" /\ inp.confidence < 50 -> "LOW"

\* C24 witness: an attack label at confidence 0.7 exactly was tiered HIGH.
C24_Witness ==
    /\ outp # None
    /\ outp.via = "_get_threat_level"
    /\ inp.label = "PortScan"
    /\ inp.confidence = 70
    /\ outp.ret.threat_level = "HIGH"

\* get_prediction_details returned the label, the confidence and the map
\* of the record as predict gives them, is_attack and threat_level computed
\* from them, and for top_3_predictions the given number of entries of the
\* map, the largest first
DetailsWithTop(size) ==
    LET item == inp.items[1]
        r == outp.ret
        top == r.top_3_predictions
    IN  /\ r.prediction = inp.classes[item.code + 1]
        /\ r.confidence = IF item.proba = << >> THEN 100
                          ELSE item.proba[item.code + 1]
        /\ Len(r.probabilities) <= Len(item.proba)
        /\ Len(r.probabilities) <= Len(inp.classes)
        /\ \/ Len(r.probabilities) = Len(item.proba)
           \/ Len(r.probabilities) = Len(inp.classes)
        /\ \A k \in 1..Len(r.probabilities) :
              r.probabilities[k] =
                  [label |-> inp.classes[k], prob |-> item.proba[k]]
        /\ r.is_attack = (r.prediction # "BENIGN")
        /\ r.threat_level = _get_threat_level(r.prediction, r.confidence)
        /\ (r.is_attack <=> r.threat_level # "NONE")
        /\ Len(top) = size
        /\ \A j \in 1..Len(top) :
              /\ \E k \in 1..Len(r.probabilities) : r.probabilities[k] = top[j]
              /\ \A k \in (j + 1)..Len(top) :
                    top[j].prob >= top[k].prob /\ top[j].label # top[k].label
        /\ \A k \in 1..Len(r.probabilities) :
              (\A j \in 1..Len(top) : top[j] # r.probabilities[k]) =>
                  \A j \in 1..Len(top) : r.probabilities[k].prob <= top[j].prob

\* C25 as stated: top_3_predictions holds min(3, number of classes) entries.
C25_TopThreeOfClasses ==
    (outp # None /\ outp.via = "get_prediction_details"
       /\ outp.err = NoError) =>
        DetailsWithTop(IF Len(inp.classes) < 3 THEN Len(inp.classes) ELSE 3)

\* C25 amended: top_3_predictions holds min(3, number of entries of the
\* probability map) entries, the map being empty when the classifier gives
\* no probabilities.
C25_TopThreeOfMap ==
    (outp # None /\ outp.via = "get_prediction_details"
       /\ outp.err = NoError) =>
        DetailsWithTop(IF Len(outp.ret.probabilities) < 3
                       THEN Len(outp.ret.probabilities) ELSE 3)

\* C25 witness: of a map of four entries with two equal probabilities, the
\* three largest were returned for an attack tiered MEDIUM.
C25_Witness ==
    /\ outp # None
    /\ outp.via = "get_prediction_details"
    /\ outp.err = NoError
    /\ Len(outp.ret.probabilities) = 4
    /\ Len(outp.ret.top_3_predictions) = 3
    /\ outp.ret.top_3_predictions[1].label = "Bot"
    /\ outp.ret.top_3_predictions[2].prob = outp.ret.top_3_predictions[3].prob
    /\ outp.ret.threat_level = "MEDIUM"

\* C30: batch_predict returns one entry per record, in the order of the
\* records: ("ERROR", 0.0) where the prediction of the record fails, the
\* label and the confidence of the record elsewhere.
C30_BatchKeepsPositions ==
    (outp # None /\ outp.via = "batch_predict") =>
        /\ outp.err = NoError
        /\ Len(outp.ret.results) = Len(inp.items)
        /\ \A k \in 1..Len(inp.items) :
              LET item == inp.items[k]
              IN  outp.ret.results[k] =
                    IF item.fails \/ item.code + 1 \notin DOMAIN inp.classes
                    THEN [prediction |-> "ERROR", confidence |-> 0]
                    ELSE [prediction |-> inp.classes[item.code + 1],
                          confidence |-> IF item.proba = << >> THEN 100
                                         ELSE item.proba[item.code + 1]]

\* C30 witness: the first record of a batch of two failed and the second
\* was predicted.
C30_Witness ==
    /\ outp # None
    /\ outp.via = "batch_predict"
    /\ Len(inp.items) = 2
    /\ inp.items[1].fails
    /\ outp.ret.results[1].prediction = "ERROR"
    /\ outp.ret.results[2].prediction = "DoS"

=============================================================================
